---- MODULE Spec2Model ----
(***************************************************************************)
(* The remote supervisor of closer (src/closer/closer.py): one run of      *)
(* main(), its listener thread quitWhenToldServer, the SIGTERM handler     *)
(* killAll, and the process subtree below the supervisor as psutil and the *)
(* kernel show it (running / zombie / reaped, re-parenting of orphans).    *)
(***************************************************************************)
EXTENDS Integers, Sequences, FiniteSets, TLC

\* ---- bounds of the model -------------------------------------------------
MaxProcs == 2
MaxSigterm == 1
MaxTerminate == 2
MaxLines == 3

\* ---- program and platform constants ---------------------------------------
SIGKILL == 9
SIGTERM == 15
ME == 0
ExitCodes == {0, 77, 255}
Tokens == {"ok", "badhex", "badpickle"}
KillerChoices == {"kill", "terminate"}
ThreadNotDaemon == FALSE
ThreadDaemon == TRUE

Procs == 1..MaxProcs
subProcess == 1
InitPid == 0 - 1
NoFrame == [enum |-> {}, todo |-> {}]
NoKill == [by |-> "none", enum |-> {}, applied |-> {}, raised |-> FALSE]

VARIABLES
    token, interpretFlag, quitWhenTold, killerArg, hasPeer,
    killer, killedByUser,
    mainPc, exitCode, sawFlag, handlerInstalled, sigPending, sigterms, hstack,
    threadPc, lframe, listenersStarted,
    state, ppid, termPending, childCode, childHow,
    hiSent, termMsg,
    supStatus, supCode, lastKill,
    popens, recvEarly,
    clientPc, terminates,
    monWired, monRemote, monEmitted, monPipe, monTerminated,
    monReader, monOutput, monEndCalls, monEndCode, monOutputAtEnd,
    monCode

inputs == <<token, interpretFlag, quitWhenTold, killerArg, hasPeer>>
mainVars == <<mainPc, exitCode, sawFlag, handlerInstalled>>
sigVars == <<sigPending, sigterms, hstack>>
threadVars == <<threadPc, lframe, listenersStarted>>
procVars == <<state, ppid, termPending, childCode, childHow>>
netVars == <<hiSent, termMsg>>
supVars == <<supStatus, supCode>>
clientVars == <<clientPc, terminates>>
monVars == <<monWired, monRemote, monEmitted, monPipe, monTerminated,
             monReader, monOutput, monEndCalls, monEndCode, monOutputAtEnd,
             monCode>>
vars == <<inputs, killer, killedByUser, mainVars, sigVars, threadVars,
          procVars, netVars, supVars, lastKill, popens, recvEarly,
          clientVars, monVars>>

\* ---- the process table ----------------------------------------------------
RECURSIVE IsDescendant(_, _)
IsDescendant(pp, p) ==
    IF pp[p] = ME THEN TRUE
    ELSE IF pp[p] \in Procs THEN IsDescendant(pp, pp[p])
    ELSE FALSE

\* psutil.Process(os.getpid()).children(recursive=True): every entry of the
\* process table (zombies included, reaped processes not) below the supervisor.
children(st, pp) ==
    {p \in Procs : st[p] \in {"running", "zombie"} /\ IsDescendant(pp, p)}

\* the status is taken to be the integer handed to sys.exit.
SysExitSameInteger(n) == n

\* exit status of the interpreter for sys.exit(n): the low 8 bits.
SysExit(n) == n % 256

\* process p stops running: it becomes a zombie, its children go to init.
Dies(p, code, how) ==
    /\ state' = [state EXCEPT ![p] = "zombie"]
    /\ ppid' = [q \in Procs |-> IF ppid[q] = p THEN InitPid ELSE ppid[q]]
    /\ termPending' = [termPending EXCEPT ![p] = FALSE]
    /\ IF p = subProcess
       THEN childCode' = code /\ childHow' = how
       ELSE UNCHANGED <<childCode, childHow>>

\* the supervisor process ends: its child, if any, is left to init.
Orphaned == [q \in Procs |-> IF ppid[q] = ME THEN InitPid ELSE ppid[q]]

Init ==
    /\ token \in Tokens
    /\ interpretFlag \in BOOLEAN
    /\ quitWhenTold \in BOOLEAN
    /\ killerArg \in KillerChoices
    /\ hasPeer \in BOOLEAN
    /\ killer = "None"
    /\ killedByUser = FALSE
    /\ mainPc = "parse"
    /\ exitCode = 0
    /\ sawFlag = FALSE
    /\ handlerInstalled = FALSE
    /\ sigPending = FALSE
    /\ sigterms = 0
    /\ hstack = <<>>
    /\ threadPc = "none"
    /\ lframe = NoFrame
    /\ listenersStarted = 0
    /\ state = [p \in Procs |-> "none"]
    /\ ppid = [p \in Procs |-> InitPid]
    /\ termPending = [p \in Procs |-> FALSE]
    /\ childCode = 0
    /\ childHow = "none"
    /\ hiSent = 0
    /\ termMsg = "none"
    /\ supStatus = "running"
    /\ supCode = 0
    /\ lastKill = NoKill
    /\ popens = 0
    /\ recvEarly = FALSE
    /\ clientPc = "waiting"
    /\ terminates = 0
    /\ monWired = FALSE
    /\ monRemote = "idle"
    /\ monEmitted = 0
    /\ monPipe = <<>>
    /\ monTerminated = FALSE
    /\ monReader = "reading"
    /\ monOutput = <<>>
    /\ monEndCalls = 0
    /\ monEndCode = 0
    /\ monOutputAtEnd = 0
    /\ monCode = 0

\* the supervisor process ends with the given status; nothing of it runs on.
Ends(status, code) ==
    /\ supStatus' = status
    /\ supCode' = code
    /\ ppid' = Orphaned
    /\ UNCHANGED <<state, termPending, childCode, childHow>>

\* process.kill() / process.terminate() of psutil on a process still in the
\* process table: SIGKILL ends a running process at once, SIGTERM is left
\* pending for it; a zombie takes the signal without effect.
KillMethod(p) ==
    IF state[p] = "running"
    THEN IF killer = "kill"
         THEN Dies(p, 0 - SIGKILL, "signal")
         ELSE /\ termPending' = [termPending EXCEPT ![p] = TRUE]
              /\ UNCHANGED <<state, ppid, childCode, childHow>>
    ELSE UNCHANGED procVars

\* killMethod() raises: psutil.NoSuchProcess for a process that has been
\* reaped, TypeError from getattr while killer is still None.
KillRaises(p) == state[p] = "gone" \/ killer \notin KillerChoices

\* ---- main thread (main, lines 35-64) ---------------------------------------
MainRunnable == supStatus = "running" /\ hstack = <<>> /\ ~sigPending

\* the arguments are parsed and the module-wide killer is left unset.
MainParseNoKiller ==
    /\ MainRunnable /\ mainPc = "parse"
    /\ mainPc' = "decode"
    /\ UNCHANGED <<inputs, clientVars, monVars, popens, recvEarly,
                   killer, killedByUser, exitCode, sawFlag,
                   handlerInstalled, sigVars, threadVars, procVars, netVars,
                   supVars, lastKill>>

MainParse ==
    /\ MainRunnable /\ mainPc = "parse"
    /\ killer' = killerArg
    /\ mainPc' = "decode"
    /\ UNCHANGED <<inputs, clientVars, monVars, popens, recvEarly,
                   killedByUser, exitCode, sawFlag, handlerInstalled,
                   sigVars, threadVars, procVars, netVars, supVars, lastKill>>

\* a token that does not decode is taken for a descriptor all the same.
MainDecodeIgnoresError ==
    /\ MainRunnable /\ mainPc = "decode"
    /\ mainPc' = "interp"
    /\ UNCHANGED <<inputs, clientVars, monVars, popens, recvEarly,
                   killer, killedByUser, exitCode, sawFlag,
                   handlerInstalled, sigVars, threadVars, procVars, netVars,
                   supVars, lastKill>>

\* interpret(): a token that is not hex, or not a pickle, raises.
MainDecode ==
    /\ MainRunnable /\ mainPc = "decode"
    /\ IF token = "ok"
       THEN mainPc' = "interp" /\ UNCHANGED <<procVars, supVars>>
       ELSE mainPc' = "raised" /\ Ends("exited", 1)
    /\ UNCHANGED <<inputs, clientVars, monVars, popens, recvEarly,
                   killer, killedByUser, exitCode, sawFlag,
                   handlerInstalled, sigVars, threadVars, netVars, lastKill>>

\* --interpret prints the descriptor and falls through to the Popen.
MainInterpretNoReturn ==
    /\ MainRunnable /\ mainPc = "interp"
    /\ mainPc' = "popen"
    /\ UNCHANGED <<inputs, clientVars, monVars, popens, recvEarly,
                   killer, killedByUser, exitCode, sawFlag,
                   handlerInstalled, sigVars, threadVars, procVars, netVars,
                   supVars, lastKill>>

MainInterpret ==
    /\ MainRunnable /\ mainPc = "interp"
    /\ IF interpretFlag
       THEN mainPc' = "done" /\ Ends("exited", 0)
       ELSE mainPc' = "popen" /\ UNCHANGED <<procVars, supVars>>
    /\ UNCHANGED <<inputs, clientVars, monVars, popens, recvEarly,
                   killer, killedByUser, exitCode, sawFlag,
                   handlerInstalled, sigVars, threadVars, netVars, lastKill>>

MainPopen ==
    /\ MainRunnable /\ mainPc = "popen"
    /\ state' = [state EXCEPT ![subProcess] = "running"]
    /\ ppid' = [ppid EXCEPT ![subProcess] = ME]
    /\ popens' = popens + 1
    /\ mainPc' = "signal"
    /\ UNCHANGED <<inputs, clientVars, monVars, recvEarly,
                   killer, killedByUser, exitCode, sawFlag,
                   handlerInstalled, sigVars, threadVars, termPending,
                   childCode, childHow, netVars, supVars, lastKill>>

MainSignal ==
    /\ MainRunnable /\ mainPc = "signal"
    /\ handlerInstalled' = TRUE
    /\ mainPc' = "branch"
    /\ UNCHANGED <<inputs, clientVars, monVars, popens, recvEarly,
                   killer, killedByUser, exitCode, sawFlag,
                   sigVars, threadVars, procVars, netVars, supVars, lastKill>>

\* the listener is started for every descriptor that carries a peer.
MainBranchOnPeer ==
    /\ MainRunnable /\ mainPc = "branch"
    /\ mainPc' = IF hasPeer THEN "thread" ELSE "wait"
    /\ UNCHANGED <<inputs, clientVars, monVars, popens, recvEarly,
                   killer, killedByUser, exitCode, sawFlag,
                   handlerInstalled, sigVars, threadVars, procVars, netVars,
                   supVars, lastKill>>

MainBranch ==
    /\ MainRunnable /\ mainPc = "branch"
    /\ mainPc' = IF quitWhenTold THEN "thread" ELSE "wait"
    /\ UNCHANGED <<inputs, clientVars, monVars, popens, recvEarly,
                   killer, killedByUser, exitCode, sawFlag,
                   handlerInstalled, sigVars, threadVars, procVars, netVars,
                   supVars, lastKill>>

\* details[ 'peer' ] raises KeyError when the descriptor carries no peer.
MainThreadStart ==
    /\ MainRunnable /\ mainPc = "thread"
    /\ IF hasPeer
       THEN /\ threadPc' = "send"
            /\ listenersStarted' = listenersStarted + 1
            /\ mainPc' = "wait"
            /\ UNCHANGED <<lframe, procVars, supVars>>
       ELSE /\ mainPc' = "raised"
            /\ Ends("exited", 1)
            /\ UNCHANGED threadVars
    /\ UNCHANGED <<inputs, clientVars, monVars, popens, recvEarly,
                   killer, killedByUser, exitCode, sawFlag,
                   handlerInstalled, sigVars, netVars, lastKill>>

\* the child is started again once it has exited.
MainWaitRespawn ==
    /\ MainRunnable /\ mainPc = "wait"
    /\ state[subProcess] = "zombie"
    /\ exitCode' = childCode
    /\ state' = [state EXCEPT ![subProcess] = "gone"]
    /\ ppid' = [ppid EXCEPT ![subProcess] = InitPid]
    /\ mainPc' = "popen"
    /\ UNCHANGED <<inputs, clientVars, monVars, popens, recvEarly,
                   killer, killedByUser, sawFlag, handlerInstalled,
                   sigVars, threadVars, termPending, childCode, childHow,
                   netVars, supVars, lastKill>>

\* subProcess.wait(): returns once the child is dead, and reaps it.
MainWait ==
    /\ MainRunnable /\ mainPc = "wait"
    /\ state[subProcess] = "zombie"
    /\ exitCode' = childCode
    /\ state' = [state EXCEPT ![subProcess] = "gone"]
    /\ ppid' = [ppid EXCEPT ![subProcess] = InitPid]
    /\ mainPc' = IF quitWhenTold THEN "check" ELSE "exit"
    /\ UNCHANGED <<inputs, clientVars, monVars, popens, recvEarly,
                   killer, killedByUser, sawFlag, handlerInstalled,
                   sigVars, threadVars, termPending, childCode, childHow,
                   netVars, supVars, lastKill>>

\* the listener is joined whatever killedByUser says.
MainCheckAlwaysJoins ==
    /\ MainRunnable /\ mainPc = "check"
    /\ sawFlag' = killedByUser
    /\ mainPc' = "join"
    /\ UNCHANGED <<inputs, clientVars, monVars, popens, recvEarly,
                   killer, killedByUser, exitCode, handlerInstalled,
                   sigVars, threadVars, procVars, netVars, supVars, lastKill>>

MainCheck ==
    /\ MainRunnable /\ mainPc = "check"
    /\ sawFlag' = killedByUser
    /\ mainPc' = IF killedByUser THEN "join" ELSE "exit"
    /\ UNCHANGED <<inputs, clientVars, monVars, popens, recvEarly,
                   killer, killedByUser, exitCode, handlerInstalled,
                   sigVars, threadVars, procVars, netVars, supVars, lastKill>>

\* the join returns without waiting for the listener.
MainJoinNoWait ==
    /\ supStatus = "running" /\ hstack = <<>> /\ mainPc = "join"
    /\ mainPc' = "exit"
    /\ UNCHANGED <<inputs, clientVars, monVars, popens, recvEarly,
                   killer, killedByUser, exitCode, sawFlag,
                   handlerInstalled, sigVars, threadVars, procVars, netVars,
                   supVars, lastKill>>

\* thread.join(): blocks on a lock; a pending signal waits for its return.
MainJoin ==
    /\ supStatus = "running" /\ hstack = <<>> /\ mainPc = "join"
    /\ threadPc \in {"done", "raised"}
    /\ mainPc' = "exit"
    /\ UNCHANGED <<inputs, clientVars, monVars, popens, recvEarly,
                   killer, killedByUser, exitCode, sawFlag,
                   handlerInstalled, sigVars, threadVars, procVars, netVars,
                   supVars, lastKill>>

\* sys.exit( exitCode ): the interpreter ends; a daemon thread does not hold it.
MainExit ==
    /\ MainRunnable /\ mainPc = "exit"
    /\ ThreadDaemon \/ threadPc \in {"none", "done", "raised"}
    /\ mainPc' = "done"
    /\ Ends("exited", SysExit(exitCode))
    /\ UNCHANGED <<inputs, clientVars, monVars, popens, recvEarly,
                   killer, killedByUser, exitCode, sawFlag,
                   handlerInstalled, sigVars, threadVars, netVars, lastKill>>

\* ---- SIGTERM and its handler (line 53, killAll lines 15-20) ----------------
\* SIGTERM reaches the supervisor while its child exists: the default action
\* ends the process unless signal.signal has installed killAll; an installed
\* handler is marked to run on the main thread.
Sigterm ==
    /\ supStatus = "running"
    /\ state[subProcess] # "none"
    /\ sigterms < MaxSigterm
    /\ sigterms' = sigterms + 1
    /\ IF handlerInstalled
       THEN sigPending' = TRUE /\ UNCHANGED <<procVars, supVars>>
       ELSE UNCHANGED sigPending /\ Ends("signaled", SIGTERM)
    /\ UNCHANGED <<inputs, clientVars, monVars, popens, recvEarly,
                   killer, killedByUser, mainVars, hstack, threadVars,
                   netVars, lastKill>>

\* the handler starts on the main thread (also inside a running handler):
\* killAll enumerates the descendants; with none to kill it returns at once.
HandlerEnter ==
    /\ supStatus = "running" /\ sigPending /\ mainPc # "join"
    /\ sigPending' = FALSE
    /\ LET e == children(state, ppid) IN
         IF e = {}
         THEN /\ lastKill' = [by |-> "handler", enum |-> {}, applied |-> {},
                              raised |-> FALSE]
              /\ UNCHANGED hstack
         ELSE /\ hstack' = <<[enum |-> e, todo |-> e]>> \o hstack
              /\ UNCHANGED lastKill
    /\ UNCHANGED <<inputs, clientVars, monVars, popens, recvEarly,
                   killer, killedByUser, mainVars, sigterms,
                   threadVars, procVars, netVars, supVars>>

\* one turn of the loop of killAll in the handler; an exception leaves the
\* handler and ends the main thread, hence the process, with status 1.
HandlerKill(p) ==
    /\ supStatus = "running" /\ hstack # <<>>
    /\ p \in Head(hstack).todo
    /\ LET f == Head(hstack) IN
         IF KillRaises(p)
         THEN /\ lastKill' = [by |-> "handler", enum |-> f.enum,
                              applied |-> (f.enum \ f.todo) \cup {p},
                              raised |-> TRUE]
              /\ hstack' = <<>>
              /\ mainPc' = "raised"
              /\ Ends("exited", 1)
         ELSE /\ KillMethod(p)
              /\ UNCHANGED <<mainPc, supVars>>
              /\ IF f.todo = {p}
                 THEN /\ hstack' = Tail(hstack)
                      /\ lastKill' = [by |-> "handler", enum |-> f.enum,
                                      applied |-> f.enum, raised |-> FALSE]
                 ELSE /\ hstack' = <<[f EXCEPT !.todo = f.todo \ {p}]>>
                                       \o Tail(hstack)
                      /\ UNCHANGED lastKill
    /\ UNCHANGED <<inputs, clientVars, monVars, popens, recvEarly,
                   killer, killedByUser, exitCode, sawFlag,
                   handlerInstalled, sigPending, sigterms, threadVars, netVars>>

\* ---- listener thread (quitWhenToldServer, lines 22-29) ---------------------
\* the listener connects and waits without sending its datagram first.
ListenerSendNothing ==
    /\ supStatus = "running" /\ threadPc = "send"
    /\ threadPc' = "recv"
    /\ UNCHANGED <<inputs, clientVars, monVars, popens, recvEarly,
                   killer, killedByUser, mainVars, sigVars, lframe,
                   listenersStarted, procVars, netVars, supVars, lastKill>>

ListenerSend ==
    /\ supStatus = "running" /\ threadPc = "send"
    /\ hiSent' = hiSent + 1
    /\ threadPc' = "recv"
    /\ UNCHANGED <<inputs, clientVars, monVars, popens, recvEarly,
                   killer, killedByUser, mainVars, sigVars, lframe,
                   listenersStarted, procVars, termMsg, supVars, lastKill>>

ListenerRecv ==
    /\ supStatus = "running" /\ threadPc = "recv"
    /\ termMsg = "sent"
    /\ termMsg' = "received"
    /\ threadPc' = "flag"
    /\ UNCHANGED <<inputs, clientVars, monVars, popens, recvEarly,
                   killer, killedByUser, mainVars, sigVars, lframe,
                   listenersStarted, procVars, hiSent, supVars, lastKill>>

\* the same step, recording whether the child was still running at the receipt.
ListenerRecvTraced ==
    /\ supStatus = "running" /\ threadPc = "recv"
    /\ termMsg = "sent"
    /\ termMsg' = "received"
    /\ recvEarly' = (state[subProcess] = "running")
    /\ threadPc' = "flag"
    /\ UNCHANGED <<inputs, clientVars, monVars, popens,
                   killer, killedByUser, mainVars, sigVars, lframe,
                   listenersStarted, procVars, hiSent, supVars, lastKill>>

ListenerSetFlag ==
    /\ supStatus = "running" /\ threadPc = "flag"
    /\ killedByUser' = TRUE
    /\ threadPc' = "killAll"
    /\ UNCHANGED <<inputs, clientVars, monVars, popens, recvEarly,
                   killer, mainVars, sigVars, lframe,
                   listenersStarted, procVars, netVars, supVars, lastKill>>

ListenerKillAll ==
    /\ supStatus = "running" /\ threadPc = "killAll"
    /\ LET e == children(state, ppid) IN
         IF e = {}
         THEN /\ lastKill' = [by |-> "listener", enum |-> {}, applied |-> {},
                              raised |-> FALSE]
              /\ threadPc' = "done"
              /\ UNCHANGED lframe
         ELSE /\ lframe' = [enum |-> e, todo |-> e]
              /\ threadPc' = "loop"
              /\ UNCHANGED lastKill
    /\ UNCHANGED <<inputs, clientVars, monVars, popens, recvEarly,
                   killer, killedByUser, mainVars, sigVars,
                   listenersStarted, procVars, netVars, supVars>>

\* one turn of the loop of killAll on the listener thread; an exception ends
\* the thread only.
ListenerKill(p) ==
    /\ supStatus = "running" /\ threadPc = "loop"
    /\ p \in lframe.todo
    /\ IF KillRaises(p)
       THEN /\ lastKill' = [by |-> "listener", enum |-> lframe.enum,
                            applied |-> (lframe.enum \ lframe.todo) \cup {p},
                            raised |-> TRUE]
            /\ lframe' = NoFrame
            /\ threadPc' = "raised"
            /\ UNCHANGED procVars
       ELSE /\ KillMethod(p)
            /\ IF lframe.todo = {p}
               THEN /\ lframe' = NoFrame
                    /\ threadPc' = "done"
                    /\ lastKill' = [by |-> "listener", enum |-> lframe.enum,
                                    applied |-> lframe.enum, raised |-> FALSE]
               ELSE /\ lframe' = [lframe EXCEPT !.todo = lframe.todo \ {p}]
                    /\ UNCHANGED <<threadPc, lastKill>>
    /\ UNCHANGED <<inputs, clientVars, monVars, popens, recvEarly,
                   killer, killedByUser, mainVars, sigVars,
                   listenersStarted, netVars, supVars>>

\* ---- the environment: the control peer and the process subtree --------------
\* the peer learns the supervisor's address from its datagram, then may send
\* the termination datagram.
PeerSendsTerminate ==
    /\ supStatus = "running"
    /\ hiSent > 0 /\ termMsg = "none"
    /\ termMsg' = "sent"
    /\ UNCHANGED <<inputs, clientVars, monVars, popens, recvEarly,
                   killer, killedByUser, mainVars, sigVars, threadVars,
                   procVars, hiSent, supVars, lastKill>>

\* a descendant forks a process of its own.
Fork(p) ==
    /\ supStatus = "running"
    /\ state[p] = "running" /\ IsDescendant(ppid, p)
    /\ \E q \in Procs :
         /\ state[q] = "none"
         /\ \A r \in Procs : r < q => state[r] # "none"
         /\ state' = [state EXCEPT ![q] = "running"]
         /\ ppid' = [ppid EXCEPT ![q] = p]
    /\ UNCHANGED <<inputs, clientVars, monVars, popens, recvEarly,
                   killer, killedByUser, mainVars, sigVars, threadVars,
                   termPending, childCode, childHow, netVars, supVars, lastKill>>

\* a process exits on its own.
ProcExit(p) ==
    /\ supStatus = "running"
    /\ state[p] = "running"
    /\ \E c \in (IF p = subProcess THEN ExitCodes ELSE {0}) :
         Dies(p, c, "natural")
    /\ UNCHANGED <<inputs, clientVars, monVars, popens, recvEarly,
                   killer, killedByUser, mainVars, sigVars, threadVars,
                   netVars, supVars, lastKill>>

\* a process dies of the SIGTERM that terminate() left pending for it.
ProcTermDie(p) ==
    /\ supStatus = "running"
    /\ state[p] = "running" /\ termPending[p]
    /\ Dies(p, 0 - SIGTERM, "signal")
    /\ UNCHANGED <<inputs, clientVars, monVars, popens, recvEarly,
                   killer, killedByUser, mainVars, sigVars, threadVars,
                   netVars, supVars, lastKill>>

\* a dead process is reaped by its parent or by init (the child of the
\* supervisor only by subProcess.wait()); its pid leaves the process table.
Reap(p) ==
    /\ supStatus = "running"
    /\ state[p] = "zombie" /\ ppid[p] # ME
    /\ state' = [state EXCEPT ![p] = "gone"]
    /\ ppid' = [ppid EXCEPT ![p] = InitPid]
    /\ UNCHANGED <<inputs, clientVars, monVars, popens, recvEarly,
                   killer, killedByUser, mainVars, sigVars, threadVars,
                   termPending, childCode, childHow, netVars, supVars, lastKill>>

\* ---- the local control client (RemoteProcessHandle) --------------------------
\* the transport invocation has ended: a run( timeout ) whose deadline sent
\* the termination request raises RemoteProcessTimeout, any other call
\* returns with the handle exited.
ClientConfirmsExit ==
    /\ supStatus # "running" /\ clientPc = "waiting"
    /\ \E o \in (IF termMsg # "none" THEN {"timeout", "exited"}
                                     ELSE {"exited"}) : clientPc' = o
    /\ UNCHANGED <<inputs, monVars, popens, recvEarly, terminates,
                   killer, killedByUser, mainVars, sigVars, threadVars,
                   procVars, netVars, supVars, lastKill>>

\* terminate() on a handle that has blocked: it sends to a peer nobody
\* listens on and waits for the acknowledgement.
ClientTerminateWaitsForAck ==
    /\ clientPc = "exited" /\ terminates < MaxTerminate
    /\ terminates' = terminates + 1
    /\ clientPc' = "blocked"
    /\ UNCHANGED <<inputs, monVars, popens, recvEarly,
                   killer, killedByUser, mainVars, sigVars, threadVars,
                   procVars, netVars, supVars, lastKill>>

\* terminate() on a handle that has exited: a no-op that returns.
ClientTerminate ==
    /\ clientPc = "exited" /\ terminates < MaxTerminate
    /\ terminates' = terminates + 1
    /\ UNCHANGED <<inputs, monVars, popens, recvEarly, clientPc,
                   killer, killedByUser, mainVars, sigVars, threadVars,
                   procVars, netVars, supVars, lastKill>>

Client == ClientConfirmsExit \/ ClientTerminate

MainThread ==
    \/ MainParse \/ MainDecode \/ MainInterpret \/ MainPopen \/ MainSignal
    \/ MainBranch \/ MainThreadStart \/ MainWait \/ MainCheck \/ MainJoin
    \/ MainExit \/ HandlerEnter
    \/ \E p \in Procs : HandlerKill(p)

ListenerThread ==
    \/ ListenerSend \/ ListenerRecv \/ ListenerSetFlag \/ ListenerKillAll
    \/ \E p \in Procs : ListenerKill(p)

Environment ==
    \/ Sigterm \/ PeerSendsTerminate
    \/ \E p \in Procs : Fork(p) \/ ProcExit(p) \/ ProcTermDie(p) \/ Reap(p)

Next == MainThread \/ ListenerThread \/ Environment

Spec == Init /\ [][Next]_vars

\* the supervisor together with the client that invoked it.
ListenerThreadTraced ==
    \/ ListenerSend \/ ListenerRecvTraced \/ ListenerSetFlag
    \/ ListenerKillAll
    \/ \E p \in Procs : ListenerKill(p)

SessionNext == MainThread \/ ListenerThreadTraced \/ Environment \/ Client

SessionSpec == Init /\ [][SessionNext]_vars

\* ---- liveMonitor( onOutput, onProcessEnd, cleanup ) --------------------------
\* the handle is spawned, with or without onProcessEnd wired.
MonitorStart ==
    /\ monRemote = "idle"
    /\ monRemote' = "running"
    /\ monWired' \in BOOLEAN
    /\ UNCHANGED <<monEmitted, monPipe, monTerminated, monReader, monOutput,
                   monEndCalls, monEndCode, monOutputAtEnd, monCode>>
    /\ UNCHANGED <<inputs, clientVars, popens, recvEarly,
                   killer, killedByUser, mainVars, sigVars, threadVars,
                   procVars, netVars, supVars, lastKill>>

\* the remote command writes its next line to stdout.
RemoteEmit ==
    /\ monRemote = "running" /\ monEmitted < MaxLines
    /\ monEmitted' = monEmitted + 1
    /\ monPipe' = Append(monPipe, monEmitted + 1)
    /\ UNCHANGED <<monWired, monRemote, monTerminated, monReader, monOutput,
                   monEndCalls, monEndCode, monOutputAtEnd, monCode>>
    /\ UNCHANGED <<inputs, clientVars, popens, recvEarly,
                   killer, killedByUser, mainVars, sigVars, threadVars,
                   procVars, netVars, supVars, lastKill>>

\* the remote command exits on its own with success.
RemoteExit ==
    /\ monRemote = "running"
    /\ monRemote' = "exited"
    /\ monCode' = 0
    /\ UNCHANGED <<monWired, monEmitted, monPipe, monTerminated, monReader,
                   monOutput, monEndCalls, monEndCode, monOutputAtEnd>>
    /\ UNCHANGED <<inputs, clientVars, popens, recvEarly,
                   killer, killedByUser, mainVars, sigVars, threadVars,
                   procVars, netVars, supVars, lastKill>>

\* terminate() mid-stream: the subtree is killed and the invocation ends with
\* the status the supervisor gives for a child ended by the kill method.
MonitorTerminate ==
    /\ monRemote = "running"
    /\ monRemote' = "killed"
    /\ monTerminated' = TRUE
    /\ \E sig \in {SIGKILL, SIGTERM} : monCode' = SysExit(0 - sig)
    /\ UNCHANGED <<monWired, monEmitted, monPipe, monReader, monOutput,
                   monEndCalls, monEndCode, monOutputAtEnd>>
    /\ UNCHANGED <<inputs, clientVars, popens, recvEarly,
                   killer, killedByUser, mainVars, sigVars, threadVars,
                   procVars, netVars, supVars, lastKill>>

\* the reader hands the oldest pending line to onOutput.
ReaderDeliver ==
    /\ monReader = "reading" /\ monPipe # <<>>
    /\ monOutput' = Append(monOutput, Head(monPipe))
    /\ monPipe' = Tail(monPipe)
    /\ UNCHANGED <<monWired, monRemote, monEmitted, monTerminated, monReader,
                   monEndCalls, monEndCode, monOutputAtEnd, monCode>>
    /\ UNCHANGED <<inputs, clientVars, popens, recvEarly,
                   killer, killedByUser, mainVars, sigVars, threadVars,
                   procVars, netVars, supVars, lastKill>>

\* the reader reports the end as soon as the remote process is gone, with
\* lines still pending.
ReaderEndWithoutDraining ==
    /\ monReader = "reading"
    /\ monRemote \in {"exited", "killed"}
    /\ monReader' = "ended"
    /\ IF monWired
       THEN /\ monEndCalls' = monEndCalls + 1
            /\ monEndCode' = monCode
            /\ monOutputAtEnd' = Len(monOutput)
       ELSE UNCHANGED <<monEndCalls, monEndCode, monOutputAtEnd>>
    /\ UNCHANGED <<monWired, monRemote, monEmitted, monPipe, monTerminated,
                   monOutput, monCode>>
    /\ UNCHANGED <<inputs, clientVars, popens, recvEarly,
                   killer, killedByUser, mainVars, sigVars, threadVars,
                   procVars, netVars, supVars, lastKill>>

\* the reader sees end-of-stream once the remote process is gone and every
\* line has been delivered; it calls onProcessEnd when it is wired.
ReaderEnd ==
    /\ monReader = "reading" /\ monPipe = <<>>
    /\ monRemote \in {"exited", "killed"}
    /\ monReader' = "ended"
    /\ IF monWired
       THEN /\ monEndCalls' = monEndCalls + 1
            /\ monEndCode' = monCode
            /\ monOutputAtEnd' = Len(monOutput)
       ELSE UNCHANGED <<monEndCalls, monEndCode, monOutputAtEnd>>
    /\ UNCHANGED <<monWired, monRemote, monEmitted, monPipe, monTerminated,
                   monOutput, monCode>>
    /\ UNCHANGED <<inputs, clientVars, popens, recvEarly,
                   killer, killedByUser, mainVars, sigVars, threadVars,
                   procVars, netVars, supVars, lastKill>>

MonitorNext ==
    \/ MonitorStart \/ RemoteEmit \/ RemoteExit \/ MonitorTerminate
    \/ ReaderDeliver \/ ReaderEnd

MonitorSpec == Init /\ [][MonitorNext]_vars

\* the scheduler runs every thread that can run.
LiveSpec == Spec /\ WF_vars(MainThread) /\ WF_vars(ListenerThread)

\* the scheduler runs some thread of the supervisor that can run.
ProgressSpec == Init /\ [][Next]_vars /\ WF_vars(MainThread \/ ListenerThread)

TypeOK ==
    /\ mainPc \in {"parse", "decode", "interp", "popen", "signal", "branch",
                   "thread", "wait", "check", "join", "exit", "done", "raised"}
    /\ threadPc \in {"none", "send", "recv", "flag", "killAll", "loop",
                     "done", "raised"}
    /\ supStatus \in {"running", "exited", "signaled"}
    /\ \A p \in Procs : state[p] \in {"none", "running", "zombie", "gone"}
    /\ clientPc \in {"waiting", "timeout", "exited", "blocked"}
    /\ terminates \in 0..MaxTerminate
    /\ popens \in 0..1
    /\ monRemote \in {"idle", "running", "exited", "killed"}
    /\ monReader \in {"reading", "ended"}
    /\ monEmitted \in 0..MaxLines

\* ---- properties -------------------------------------------------------------
ListenerEnded == threadPc \in {"done", "raised"}
PastThreadStart == mainPc \in {"wait", "check", "join", "exit", "done"}

\* C1: in a run with --quit-when-told and --killer kill, once the listener
\* has received the termination datagram, no process created below the
\* supervisor is still running when the supervisor has ended.
C1_NoOrphanAfterRequest ==
    (supStatus # "running" /\ quitWhenTold /\ killerArg = "kill"
        /\ termMsg = "received")
    => \A p \in Procs : state[p] # "running"

\* C2: every invocation of killAll that has ended has applied the kill method
\* to every descendant it enumerated, also when one of them was gone already.
C2_KillAllExhaustive == lastKill.applied = lastKill.enum

\* C3: once the child exists, no SIGTERM ends the supervisor by the default
\* action, that is without killAll having been run for it.
C3_SigtermRunsKillAll ==
    ~(supStatus = "signaled" /\ state[subProcess] # "none")

\* C4: when the child has exited on its own with code c and no SIGTERM was
\* sent to the supervisor, a supervisor that has ended has exited with c,
\* with or without --quit-when-told.
C4_ExitCodeMirrored ==
    (supStatus # "running" /\ childHow = "natural" /\ sigterms = 0)
    => (supStatus = "exited" /\ supCode = childCode)

\* C5: with --quit-when-told, when the child has exited on its own and the
\* listener is blocked in recv, the supervisor eventually ends.
C5_IdleListenerDoesNotHoldExit ==
    (quitWhenTold /\ childHow = "natural" /\ threadPc = "recv"
        /\ supStatus = "running")
    ~> (supStatus # "running")

C5_Witness ==
    /\ supStatus = "exited" /\ mainPc = "done" /\ quitWhenTold
    /\ childHow = "natural" /\ threadPc = "recv" /\ termMsg = "none"

\* C6 (as claimed): the supervisor has sent nothing to the peer unless a
\* termination datagram has been received.
C6_NothingSentBeforeReceipt == hiSent > 0 => termMsg = "received"

\* C6 (amended): the supervisor sends exactly one datagram, when the listener
\* starts and before it waits for the termination datagram, hence before the
\* receipt and before the subtree kill; it sends nothing after the receipt.
C6_OneDatagramBeforeReceipt ==
    /\ threadPc \in {"none", "send"} => hiSent = 0
    /\ threadPc \notin {"none", "send"} => hiSent = 1
    /\ termMsg = "received" => hiSent = 1

C6_Witness ==
    /\ termMsg = "received" /\ hiSent = 1
    /\ lastKill.by = "listener" /\ lastKill.enum # {}

\* C7 (as claimed): a non-interpret run that is past the start of the
\* listener has started one exactly when the descriptor carries a peer.
C7_ListenerIffPeer ==
    (PastThreadStart /\ ~interpretFlag) => (listenersStarted = 1 <=> hasPeer)

\* C7 (amended): a non-interpret run starts a listener exactly when
\* --quit-when-told is given and the descriptor carries a peer (with the flag
\* and no peer the run raises and starts none), and never more than one.
C7_ListenerIffFlagAndPeer ==
    /\ listenersStarted <= 1
    /\ listenersStarted = 1 => (quitWhenTold /\ hasPeer /\ ~interpretFlag)
    /\ (PastThreadStart /\ ~interpretFlag)
         => (listenersStarted = 1 <=> (quitWhenTold /\ hasPeer))
    /\ (threadPc # "none") <=> (listenersStarted = 1)

C7_Witness ==
    /\ listenersStarted = 1 /\ threadPc = "recv" /\ mainPc = "wait"
    /\ quitWhenTold /\ hasPeer

\* C8: the supervisor has not exited, normally or by an exception, while its
\* child is still running.
C8_SupervisorOutlivesChild ==
    supStatus = "exited" => state[subProcess] # "running"

\* C9 (as claimed): with --quit-when-told the supervisor has not exited
\* while its listener is still running.
C9_NoExitWhileListenerRuns ==
    (supStatus = "exited" /\ quitWhenTold)
    => threadPc \in {"none", "done", "raised"}

\* C9 (amended): after the child has exited the main thread joins the
\* listener only when it reads killedByUser as true, and then it goes on to
\* exit only after the listener has ended; when it reads false it exits
\* without joining, whatever the listener is doing.
C9_JoinedWhenFlagSeen ==
    /\ (mainPc \in {"exit", "done"} /\ sawFlag) => ListenerEnded
    /\ mainPc = "join" => sawFlag

C9_Witness ==
    /\ supStatus = "exited" /\ mainPc = "done" /\ sawFlag
    /\ threadPc = "done" /\ lastKill.by = "listener"

\* C10: with --interpret and a decodable token no child is spawned, no
\* handler installed, no listener started, no datagram sent, and the run ends
\* with exit code 0, whatever the other arguments are.
C10_InterpretRunsNothing ==
    (interpretFlag /\ token = "ok")
    => /\ \A p \in Procs : state[p] = "none"
       /\ ~handlerInstalled
       /\ threadPc = "none" /\ listenersStarted = 0
       /\ hiSent = 0
       /\ mainPc # "raised"
       /\ supStatus # "running" => (supStatus = "exited" /\ supCode = 0)

C10_Witness ==
    /\ interpretFlag /\ token = "ok" /\ supStatus = "exited"
    /\ quitWhenTold /\ hasPeer /\ killerArg = "kill"

PastWait == mainPc \in {"check", "join", "exit", "done"}

\* C11: with a token that does not decode the run raises before any child is
\* spawned, any handler installed, any listener started or datagram sent; it
\* ends with a nonzero exit code and the decoding is not tried again.
C11_DecodeFailureIsFatal ==
    token # "ok"
    => /\ \A p \in Procs : state[p] = "none"
       /\ ~handlerInstalled
       /\ threadPc = "none" /\ listenersStarted = 0
       /\ hiSent = 0
       /\ mainPc \in {"parse", "decode", "raised"}
       /\ supStatus # "running"
            => (supStatus = "exited" /\ supCode # 0 /\ mainPc = "raised")

C11_Witness ==
    /\ token = "badpickle" /\ supStatus = "exited" /\ mainPc = "raised"
    /\ ~interpretFlag /\ quitWhenTold /\ hasPeer

\* C12 (as claimed): when the child was ended by a signal and the wait on it
\* has returned, the supervisor exits with the very integer the wait reported.
C12_SameIntegerOnKill ==
    (PastWait /\ childHow = "signal" /\ supStatus # "running")
    => supCode = childCode

\* C12 (amended): when the child was ended by a signal and the wait on it has
\* returned -signum, the supervisor exits with that value modulo 256, that is
\* 256 - signum (247 after SIGKILL, 241 after SIGTERM).
C12_KilledCodeModulo256 ==
    (PastWait /\ childHow = "signal")
    => /\ exitCode = childCode
       /\ childCode \in {0 - SIGKILL, 0 - SIGTERM}
       /\ supStatus # "running"
            => (supStatus = "exited" /\ supCode = 256 + childCode)

C12_Witness ==
    /\ supStatus = "exited" /\ mainPc = "done" /\ childHow = "signal"
    /\ childCode = 0 - SIGTERM /\ supCode = 241 /\ lastKill.by = "handler"

C20_SupervisorFinishes ==
    (state[subProcess] \in {"zombie", "gone"} /\ supStatus = "running")
    ~> (supStatus # "running")

C20_Witness ==
    /\ supStatus = "exited" /\ mainPc = "done" /\ sawFlag /\ quitWhenTold
    /\ lastKill.by = "listener" /\ lastKill.enum # {}
    /\ childHow = "signal"

KillBegun == hstack # <<>> \/ threadPc = "loop" \/ lastKill.by # "none"

Stage ==
    IF supStatus # "running" THEN 4
    ELSE IF KillBegun THEN 3
    ELSE IF threadPc # "none" THEN 2
    ELSE IF state[subProcess] # "none" THEN 1
    ELSE 0

\* C13: RemoteProcessTimeout has been raised for a command that did not exit
\* on its own, in a session no SIGTERM was sent to, only when the termination
\* request was sent, the supervisor has ended and no process of its subtree
\* is still running.
C13_TimeoutOnlyAfterSubtreeGone ==
    (clientPc = "timeout" /\ childHow # "natural" /\ sigterms = 0)
    => /\ termMsg # "none" /\ supStatus # "running"
       /\ \A p \in Procs : state[p] # "running"

C18_FlagProtectsKill ==
    /\ killedByUser => termMsg = "received"
    /\ threadPc \in {"killAll", "loop", "done", "raised"} => killedByUser
    /\ (sawFlag /\ supStatus = "exited") => ListenerEnded
    /\ (recvEarly /\ supStatus = "exited") => ListenerEnded

\* C19: when a SIGTERM has been handled and a termination datagram has been
\* received in the same session, with --killer kill, and both subtree kills
\* have started, the supervisor has not exited with a process of its subtree
\* still running.
C19_BothPathsLeaveNoDescendant ==
    (supStatus = "exited" /\ killerArg = "kill"
        /\ sigterms > 0 /\ ~sigPending /\ handlerInstalled
        /\ termMsg = "received" /\ threadPc \in {"loop", "done", "raised"})
    => \A p \in Procs : state[p] # "running"

====
